---- MODULE Spec2Model ----
(***************************************************************************)
(* Model of DI::Container (src/cppdi.h): a dependency-injection container  *)
(* with Bind / Get / Seal and a destructor.  Arrays are sequences,         *)
(* pointers are integers: 0 is nullptr, positive integers are objects the  *)
(* container allocated with new (the index in heap), negative integers are *)
(* objects the caller owns and hands to Bind(provided, instance).          *)
(***************************************************************************)
EXTENDS Integers, Sequences, FiniteSets, TLC

\* ---------------------------------------------------------------- bounds
MaxDeps    == 1      \* longest dependency list D... of a Bind<T, D...>
MaxObjects == 3      \* how many objects the container may allocate in a run
NumExt     == 1      \* how many caller-owned objects can be passed to Bind
MaxBinds   == 2      \* how many bindings are registered in a run
StackDepth == 4      \* nested Build frames the call stack can hold

\* the types of the client program: a type may name the other or itself in
\* a constructor parameter, so the dependency lists include cycles
Types    == {1, 2}
Null     == 0
ExtPtrs  == {0 - k : k \in 1..NumExt}
Modes    == {"singleton", "factory", "provided"}
DepLists == UNION {[1..n -> Types] : n \in 0..MaxDeps}

VARIABLES bindings,   \* Binding** bindings   (numBindings is its length)
          instances,  \* TrackedInstance** instances (numInstances is its length)
          sealed,     \* bool sealed
          heap,       \* the objects built by Ctor::Build: type and constructor arguments
          argOrder,   \* the order in which the build evaluates constructor arguments
          pc,         \* "live", "overflow" (stack exhausted), "fault", "destroyed"
          decl,       \* history: per type, the mode and instance of the Bind that registered it
          destroyed,  \* history: what the destructor deleted, in order
          last        \* history: the last call and what it returned

vars == <<bindings, instances, sealed, heap, argOrder, pc, decl, destroyed, last>>

numBindings  == Len(bindings)
numInstances == Len(instances)

\* the container's fields as one value, so operations can be composed
Cur == [bindings |-> bindings, instances |-> instances, sealed |-> sealed, heap |-> heap]

\* ------------------------------------------------------------- helpers
\* mutants of Find: the comparison of type names is dropped; the scan starts
\* one element too late
Find_MutAnyType(arr, T) == IF Len(arr) > 0 THEN 1 ELSE 0

Find_MutSkipFirst(arr, T) ==
    IF \E i \in 2..Len(arr) : arr[i].type = T
    THEN CHOOSE i \in 2..Len(arr) :
            /\ arr[i].type = T
            /\ \A j \in 2..(i - 1) : arr[j].type # T
    ELSE 0

\* Find: index of the first element of arr whose type name is T, 0 for nullptr
Find(arr, T) ==
    IF \E i \in 1..Len(arr) : arr[i].type = T
    THEN CHOOSE i \in 1..Len(arr) :
            /\ arr[i].type = T
            /\ \A j \in 1..(i - 1) : arr[j].type # T
    ELSE 0

\* ExpandArray: a new array of `size` slots holding the old elements; the
\* last slot is copied from beyond the old array (or left uninitialised for
\* the first allocation), so its content is indeterminate.
Indeterminate == [type |-> 0 - 1]
ExpandArray(arr, size) ==
    [i \in 1..size |-> IF i <= Len(arr) THEN arr[i] ELSE Indeterminate]

\* ExpandArray, line 157-160: the indices (from 0) of the old array that the
\* copy loop reads; the loop runs to the new size, and not at all when the
\* old array is nullptr (the empty sequence)
ExpandReads(arr, size) == IF arr # <<>> THEN 0..(size - 1) ELSE {}

\* an array that grew from `before` to `after`, one ExpandArray call per
\* element: some call read the old array at or beyond its length
ReadsBeyond(before, after) ==
    \E n \in Len(before)..(Len(after) - 1) :
        \E i \in ExpandReads(SubSeq(after, 1, n), n + 1) : i >= n

AddBind(c, b) ==
    [c EXCEPT !.bindings =
        [ExpandArray(c.bindings, Len(c.bindings) + 1) EXCEPT ![Len(c.bindings) + 1] = b]]

\* mutant of AddInstance: the instance is not recorded
AddInstance_MutDrop(c, tr) == c

AddInstance(c, tr) ==
    [c EXCEPT !.instances =
        [ExpandArray(c.instances, Len(c.instances) + 1) EXCEPT ![Len(c.instances) + 1] = tr]]

\* mutant of TypeInstance: the mode is not taken from the argument
TypeInstance_MutSingleton(T, obj, ins) == [type |-> T, mode |-> "singleton", ptr |-> obj]

\* TypeInstance constructor
TypeInstance(T, obj, ins) == [type |-> T, mode |-> ins, ptr |-> obj]

\* mutant of Ctor: the binding forgets its dependency list
Ctor_MutNoDeps(T, deps) == [type |-> T, deps |-> <<>>]

\* Ctor constructor: the binding of T with dependency list D...
Ctor(T, deps) == [type |-> T, deps |-> deps]

\* mutants of ServedFromCache: only provided instances are served; every
\* found instance is served
ServedFromCache_MutProvidedOnly(inst) == inst.mode = "provided"

ServedFromCache_MutAlways(inst) == TRUE

\* Get, line 129: a found instance is returned unless it is factory based
ServedFromCache(inst) == inst.mode # "factory"

\* mutant of NewObject: the resolved dependencies are not passed on
NewObject_MutDropArgs(T, args) == [type |-> T, args |-> [k \in DOMAIN args |-> Null]]

\* new T(args...): the object the constructor of T makes from its arguments
NewObject(T, args) == [type |-> T, args |-> args]

\* mutant of Owned: provided instances are deleted too
Owned_MutAll(inst) == TRUE

\* ~Container, line 92: instances that are not provided are deleted
Owned(inst) == inst.mode # "provided"

\* positions of the constructor arguments in the order the build evaluates them
EvalOrder(n) == SelectSeq(argOrder, LAMBDA k : k <= n)

RECURSIVE GetRec(_, _, _), BuildRec(_, _, _), ResolveArgs(_, _, _, _, _)

\* evaluates container->Get<D>() for the argument positions in `todo`,
\* filling `args`; ok is FALSE when the stack is exhausted on the way
ResolveArgs(c, deps, todo, args, fuel) ==
    IF todo = <<>> THEN [c |-> c, args |-> args, ok |-> TRUE]
    ELSE LET k == Head(todo)
             r == GetRec(c, deps[k], fuel)
         IN  IF ~r.ok THEN [c |-> c, args |-> args, ok |-> FALSE]
             ELSE ResolveArgs(r.c, deps, Tail(todo), [args EXCEPT ![k] = r.ret], fuel)

\* Ctor::Build: new T(container->Get<D>()...)
BuildRec(c, b, fuel) ==
    IF fuel = 0 THEN [c |-> c, ret |-> Null, ok |-> FALSE]
    ELSE LET n == Len(b.deps)
             r == ResolveArgs(c, b.deps, EvalOrder(n), [k \in 1..n |-> Null], fuel - 1)
         IN  IF ~r.ok THEN [c |-> c, ret |-> Null, ok |-> FALSE]
             ELSE [c   |-> [r.c EXCEPT !.heap = Append(@, NewObject(b.type, r.args))],
                   ret |-> Len(r.c.heap) + 1,
                   ok  |-> TRUE]

\* Container::Get<T>
GetRec(c, T, fuel) ==
    LET i == Find(c.instances, T)
        j == Find(c.bindings, T)
    IN  IF i # 0 /\ ServedFromCache(c.instances[i])
        THEN [c |-> c, ret |-> c.instances[i].ptr, ok |-> TRUE]
        ELSE IF j = 0
        THEN [c |-> c, ret |-> Null, ok |-> TRUE]
        ELSE LET r == BuildRec(c, c.bindings[j], fuel)
             IN  IF ~r.ok THEN [c |-> c, ret |-> Null, ok |-> FALSE]
                 ELSE [c   |-> AddInstance(r.c, TypeInstance(T, r.ret, "factory")),
                       ret |-> r.ret,
                       ok  |-> TRUE]

GetOp(c, T) == GetRec(c, T, StackDepth)

\* mutant of SealOp: the flag is flipped instead of set
SealOp_MutToggle(c) == [c EXCEPT !.sealed = ~c.sealed]

\* Container::Seal
SealOp(c) == [c EXCEPT !.sealed = TRUE]

\* mutants of BindRefused: the sealed check is missing; the check for an
\* existing binding is missing
BindRefused_MutNoSeal(c, T) == Find(c.bindings, T) # 0

BindRefused_MutNoDup(c, T) == c.sealed

\* Bind, line 105 and line 110: the two early returns
BindRefused(c, T) == c.sealed \/ Find(c.bindings, T) # 0

\* mutant of BuildsAtBind: every mode but provided is built by Bind
BuildsAtBind_MutEager(mode) == mode # "provided"

\* Bind, line 117: only a singleton is built by Bind itself
BuildsAtBind(mode) == mode = "singleton"

\* Container::Bind<T, D...>(mode, instance); eff tells whether a binding was
\* registered, ptr is the instance cached for T by this call (0 if none)
BindOp(c, T, deps, mode, instance) ==
    IF BindRefused(c, T)
    THEN [c |-> c, ok |-> TRUE, eff |-> FALSE, ptr |-> Null]
    ELSE LET bind == Ctor(T, deps)
             c1   == AddBind(c, bind)
         IN  CASE BuildsAtBind(mode) ->
                    LET r == BuildRec(c1, bind, StackDepth)
                    IN  IF ~r.ok THEN [c |-> c1, ok |-> FALSE, eff |-> TRUE, ptr |-> Null]
                        ELSE [c   |-> AddInstance(r.c, TypeInstance(T, r.ret, "singleton")),
                              ok  |-> TRUE, eff |-> TRUE, ptr |-> r.ret]
               [] mode = "provided" ->
                    [c   |-> AddInstance(c1, TypeInstance(T, instance, "provided")),
                     ok  |-> TRUE, eff |-> TRUE, ptr |-> instance]
               [] OTHER ->
                    [c |-> c1, ok |-> TRUE, eff |-> TRUE, ptr |-> Null]

\* ~Container: the deletions in the order the destructor performs them
RECURSIVE DeleteBindings(_, _), DeleteInstances(_, _)
DeleteBindings(arr, i) ==
    IF i < 1 THEN <<>>
    ELSE <<[kind |-> "binding", type |-> arr[i].type, ptr |-> Null]>> \o DeleteBindings(arr, i - 1)

DeleteInstances(arr, i) ==
    IF i < 1 THEN <<>>
    ELSE (IF Owned(arr[i])
          THEN <<[kind |-> "object", type |-> arr[i].type, ptr |-> arr[i].ptr]>>
          ELSE <<>>) \o DeleteInstances(arr, i - 1)

\* mutant of DestroyOp: the instances are deleted before the bindings
DestroyOp_MutInstancesFirst(c) ==
    DeleteInstances(c.instances, Len(c.instances)) \o DeleteBindings(c.bindings, Len(c.bindings))

DestroyOp(c) ==
    DeleteBindings(c.bindings, Len(c.bindings)) \o DeleteInstances(c.instances, Len(c.instances))

\* --------------------------------------------------------------- actions
NoDecl == [mode |-> "none", ptr |-> Null, deps |-> <<>>]

Init ==
    /\ bindings = <<>>
    /\ instances = <<>>
    /\ sealed = FALSE
    /\ heap = <<>>
    /\ argOrder \in {p \in [1..MaxDeps -> 1..MaxDeps] : \A k \in 1..MaxDeps : \E m \in 1..MaxDeps : p[m] = k}
    /\ pc = "live"
    /\ decl = [T \in Types |-> NoDecl]
    /\ destroyed = <<>>
    /\ last = [op |-> "Init", type |-> 0, ret |-> Null]

SetContainer(c) ==
    /\ bindings' = c.bindings
    /\ instances' = c.instances
    /\ sealed' = c.sealed
    /\ heap' = c.heap

\* a dependency cycle makes Build and Get call each other until the stack is
\* exhausted: the process ends, and no later call sees the container
Overflow(op, T) ==
    /\ pc' = "overflow"
    /\ last' = [op |-> op, type |-> T, ret |-> Null]
    /\ UNCHANGED <<bindings, instances, sealed, heap, argOrder, decl, destroyed>>

\* the read beyond the old array in ExpandArray is undefined behaviour: the
\* value read is overwritten by the caller (AddBind, AddInstance), so either
\* the call goes on as if nothing happened, or the process is stopped at the
\* read (a build that checks heap accesses)
Fault(op, T) ==
    /\ pc' = "fault"
    /\ last' = [op |-> op, type |-> T, ret |-> Null]
    /\ UNCHANGED <<bindings, instances, sealed, heap, argOrder, decl, destroyed>>

Bind(T, deps, mode, instance) ==
    /\ pc = "live"
    /\ LET r == BindOp(Cur, T, deps, mode, instance)
       IN  IF ~r.ok THEN Overflow("Bind", T)
           ELSE /\ Len(r.c.heap) <= MaxObjects
                /\ Len(r.c.bindings) <= MaxBinds
                /\ \/ /\ ReadsBeyond(bindings, r.c.bindings) \/ ReadsBeyond(instances, r.c.instances)
                      /\ Fault("Bind", T)
                   \/ /\ SetContainer(r.c)
                      /\ decl' = IF r.eff
                                 THEN [decl EXCEPT ![T] = [mode |-> mode, ptr |-> r.ptr, deps |-> deps]]
                                 ELSE decl
                      /\ last' = [op |-> "Bind", type |-> T, ret |-> Null]
                      /\ UNCHANGED <<argOrder, pc, destroyed>>

Get(T) ==
    /\ pc = "live"
    /\ LET r == GetOp(Cur, T)
       IN  IF ~r.ok THEN Overflow("Get", T)
           ELSE /\ Len(r.c.heap) <= MaxObjects
                /\ \/ /\ ReadsBeyond(instances, r.c.instances)
                      /\ Fault("Get", T)
                   \/ /\ SetContainer(r.c)
                      /\ last' = [op |-> "Get", type |-> T, ret |-> r.ret]
                      /\ UNCHANGED <<argOrder, pc, decl, destroyed>>

Seal ==
    /\ pc = "live"
    /\ SetContainer(SealOp(Cur))
    /\ last' = [op |-> "Seal", type |-> 0, ret |-> Null]
    /\ UNCHANGED <<argOrder, pc, decl, destroyed>>

Destroy ==
    /\ pc = "live"
    /\ pc' = "destroyed"
    /\ destroyed' = DestroyOp(Cur)
    /\ last' = [op |-> "Destroy", type |-> 0, ret |-> Null]
    /\ UNCHANGED <<bindings, instances, sealed, heap, argOrder, decl>>

\* the instance argument of Bind: only read when mode is provided (line 121),
\* and left at its default nullptr by the callers of the other modes
InstanceArgs(mode) == IF mode = "provided" THEN {Null} \cup ExtPtrs ELSE {Null}

\* the dependency list and mode of a Bind call: a call that Bind refuses
\* returns at line 106 or 111, before it reads either, so one such call
\* stands for all of them
DepArgs(T) == IF BindRefused(Cur, T) THEN {<<>>} ELSE DepLists

ModeArgs(T) == IF BindRefused(Cur, T) THEN {"singleton"} ELSE Modes

\* a call of Bind<T, D...>(mode, instance) by the client
BindCall(T) ==
    \E deps \in DepArgs(T), mode \in ModeArgs(T) :
        \E instance \in InstanceArgs(mode) : Bind(T, deps, mode, instance)

Next ==
    \/ \E T \in Types : BindCall(T)
    \/ \E T \in Types : Get(T)
    \/ Seal
    \/ Destroy

Spec == Init /\ [][Next]_vars

TypeOK ==
    /\ pc \in {"live", "overflow", "fault", "destroyed"}
    /\ sealed \in BOOLEAN
    /\ \A i \in 1..numBindings : bindings[i].type \in Types
    /\ \A i \in 1..numInstances : instances[i].type \in Types /\ instances[i].mode \in Modes
\* ------------------------------------------------------------ properties
Live == pc = "live"
Bound(T) == \E i \in 1..numBindings : bindings[i].type = T
BoundBefore(B, A) ==
    \E i, j \in 1..numBindings : i < j /\ bindings[i].type = B /\ bindings[j].type = A
BindArgs == Types \X DepLists \X Modes \X ({Null} \cup ExtPtrs)
BindCalls == {a \in BindArgs : a[4] \in (IF a[3] = "provided" THEN {Null} \cup ExtPtrs ELSE {Null})}
InstancesOf(T) == {i \in 1..numInstances : instances[i].type = T}

\* C1: a type bound as singleton resolves, in every later state, to the one
\* instance that its Bind built, whatever calls came in between.
Inv_C1_SingletonIdentity ==
    \A T \in Types :
        decl[T].mode = "singleton" =>
            /\ decl[T].ptr \in 1..Len(heap)
            /\ heap[decl[T].ptr].type = T
            /\ Live => GetOp(Cur, T) = [c |-> Cur, ret |-> decl[T].ptr, ok |-> TRUE]
            /\ (Live /\ last.op = "Get" /\ last.type = T) => last.ret = decl[T].ptr

Wit_C1_SingletonIdentity ==
    /\ Live
    /\ last.op = "Get"
    /\ decl[last.type].mode = "singleton"
    /\ last.ret = decl[last.type].ptr
    /\ \E U \in Types \ {last.type} : Cardinality(InstancesOf(U)) >= 2

\* C2: Get of a type bound as factory builds a new object: the pointer it
\* returns is not null, was not allocated or tracked before the call, and is
\* of the requested type; it is tracked afterwards.
Thm_C2_FactoryFresh ==
    [][\A T \in Types :
          (Live /\ pc' = "live" /\ decl[T].mode = "factory"
                /\ last'.op = "Get" /\ last'.type = T)
          => /\ last'.ret # Null
             /\ last'.ret \notin 1..Len(heap)
             /\ \A i \in 1..numInstances : instances[i].ptr # last'.ret
             /\ last'.ret \in 1..Len(heap')
             /\ heap'[last'.ret].type = T
             /\ instances'[Len(instances')] = TypeInstance(T, last'.ret, "factory")]_vars

Wit_C2_FactoryFresh ==
    /\ Live
    /\ last.op = "Get"
    /\ decl[last.type].mode = "factory"
    /\ Cardinality(InstancesOf(last.type)) >= 2
    /\ \A i, j \in InstancesOf(last.type) : i # j => instances[i].ptr # instances[j].ptr

\* C3: a type bound as provided with instance X resolves to exactly X, the
\* container never constructs an object of that type, and the destructor
\* does not delete X.
Inv_C3_ProvidedBorrowed ==
    \A T \in Types :
        decl[T].mode = "provided" =>
            /\ Live => GetOp(Cur, T) = [c |-> Cur, ret |-> decl[T].ptr, ok |-> TRUE]
            /\ (Live /\ last.op = "Get" /\ last.type = T) => last.ret = decl[T].ptr
            /\ \A k \in 1..Len(heap) : heap[k].type # T
            /\ \A k \in 1..Len(destroyed) :
                  destroyed[k].kind = "object" =>
                      destroyed[k].ptr # decl[T].ptr /\ destroyed[k].type # T

Wit_C3_ProvidedBorrowed ==
    /\ pc = "destroyed"
    /\ \E T \in Types :
          /\ decl[T].mode = "provided"
          /\ decl[T].ptr \in ExtPtrs
          /\ \E k \in 1..Len(heap) : heap[k].args = <<decl[T].ptr>>
    /\ \E k \in 1..Len(destroyed) : destroyed[k].kind = "object"

\* C4: Get of a type without a binding returns null and changes nothing in
\* the container, also after calls on other types.
Inv_C4_UnboundIsNull ==
    \A T \in Types :
        ~Bound(T) =>
            /\ Live => GetOp(Cur, T) = [c |-> Cur, ret |-> Null, ok |-> TRUE]
            /\ (last.op = "Get" /\ last.type = T) => (last.ret = Null /\ Live)

Wit_C4_UnboundIsNull ==
    /\ Live
    /\ last.op = "Get"
    /\ ~Bound(last.type)
    /\ last.ret = Null
    /\ numBindings > 0
    /\ numInstances > 1

\* C5: every type that has a binding resolves to a non-null instance
\* (this is the claim as stated; Bind(provided) with a null instance breaks it).
Cex_C5_BoundIsNonNull ==
    Live => \A T \in Types : (Bound(T) /\ GetOp(Cur, T).ok) => GetOp(Cur, T).ret # Null

\* C6: in a sealed container no Bind call, whatever its arguments, changes
\* the bindings, the tracked instances or the constructed objects (so every
\* type resolves after it as it did before), and it registers nothing.
Inv_C6_SealedBindNoEffect ==
    (Live /\ sealed) =>
        \A a \in BindArgs :
            LET r == BindOp(Cur, a[1], a[2], a[3], a[4])
            IN  /\ r.ok /\ ~r.eff
                /\ r.c.bindings = bindings
                /\ r.c.instances = instances
                /\ r.c.heap = heap
                /\ r.c.sealed

Wit_C6_SealedBindNoEffect ==
    /\ Live /\ sealed
    /\ last.op = "Bind"
    /\ ~Bound(last.type)
    /\ numBindings > 0

\* C7: once sealed, the container stays sealed in every later state, and
\* Seal on a sealed container changes nothing.
Thm_C7_SealIrreversible ==
    /\ [](sealed => SealOp(Cur) = Cur)
    /\ [][sealed => sealed']_vars

Wit_C7_SealIrreversible ==
    /\ sealed
    /\ last.op = "Get"
    /\ last.ret # Null
    /\ numInstances >= 2

\* C8: Bind of a type that already has a binding changes nothing: bindings,
\* tracked instances and constructed objects stay as they are, the passed
\* instance is not stored, and the binding keeps the dependency list of the
\* first Bind.
Inv_C8_RebindNoEffect ==
    Live =>
        \A a \in BindArgs :
            Bound(a[1]) =>
                LET r == BindOp(Cur, a[1], a[2], a[3], a[4])
                IN  /\ r.ok /\ ~r.eff
                    /\ r.c = Cur
                    /\ \A i \in 1..numBindings :
                          bindings[i].type = a[1] => bindings[i].deps = decl[a[1]].deps

Wit_C8_RebindNoEffect ==
    /\ Live /\ ~sealed
    /\ last.op = "Bind"
    /\ \E i \in 1..(numBindings - 1) : bindings[i].type = last.type

\* C9: no two registered bindings have the same produced type.
Inv_C9_UniqueBindings ==
    \A i, j \in 1..numBindings : i # j => bindings[i].type # bindings[j].type

Wit_C9_UniqueBindings ==
    /\ ~sealed
    /\ numBindings = 2
    /\ last.op = "Bind"
    /\ last.type = bindings[1].type

\* C10: B bound first with dependency list <<A>>, A bound afterwards as
\* singleton with instance a.
WiredSecond(B, A) ==
    /\ A # B
    /\ BoundBefore(B, A)
    /\ decl[B].deps = <<A>>
    /\ decl[A].mode = "singleton"

BuiltWith(r, T, a) ==
    /\ r.ok
    /\ r.ret \in 1..Len(r.c.heap)
    /\ r.c.heap[r.ret].type = T
    /\ r.c.heap[r.ret].args = <<a>>

\* C10 as stated: whatever policy B was bound with, Get<B> returns a B that
\* was constructed with a.
Cex_C10_WiredAnyPolicy ==
    Live => \A A, B \in Types :
                WiredSecond(B, A) => BuiltWith(GetOp(Cur, B), B, decl[A].ptr)

\* C10 amended: when B was bound as factory, Get<B> returns a B that was
\* constructed with a.
Inv_C10_WiredFactory ==
    /\ Live => \A A, B \in Types :
                  (WiredSecond(B, A) /\ decl[B].mode = "factory")
                      => BuiltWith(GetOp(Cur, B), B, decl[A].ptr)
    /\ (Live /\ last.op = "Get") =>
           \A A \in Types :
              (WiredSecond(last.type, A) /\ decl[last.type].mode = "factory")
                  => /\ last.ret \in 1..Len(heap)
                     /\ heap[last.ret].type = last.type
                     /\ heap[last.ret].args = <<decl[A].ptr>>

Wit_C10_WiredFactory ==
    /\ Live
    /\ last.op = "Get"
    /\ \E A \in Types :
          /\ WiredSecond(last.type, A)
          /\ decl[last.type].mode = "factory"
          /\ last.ret \in 1..Len(heap)
          /\ heap[last.ret].args = <<decl[A].ptr>>

\* C11: D bound as singleton, then T bound as singleton with the dependency
\* list <<D>>.
SharedSingleton(T, D) ==
    /\ T # D
    /\ BoundBefore(D, T)
    /\ decl[D].mode = "singleton"
    /\ decl[T].mode = "singleton"
    /\ decl[T].deps = <<D>>

\* C11: the T that Get<T> returns was constructed with the D pointer that
\* Get<D> returns, in every later state.
Inv_C11_SharedSingletonDep ==
    Live => \A T, D \in Types :
                SharedSingleton(T, D) =>
                    LET rt == GetOp(Cur, T)
                        rd == GetOp(Cur, D)
                    IN  /\ rt.ok /\ rd.ok
                        /\ rd.ret # Null
                        /\ rt.ret \in 1..Len(heap)
                        /\ heap[rt.ret].type = T
                        /\ heap[rt.ret].args = <<rd.ret>>

Wit_C11_SharedSingletonDep ==
    /\ Live
    /\ last.op = "Get"
    /\ \E D \in Types :
          /\ SharedSingleton(last.type, D)
          /\ last.ret \in 1..Len(heap)
          /\ heap[last.ret].args = <<decl[D].ptr>>
          /\ decl[D].ptr # Null

\* C12: the object r was constructed for T from the dependency list deps,
\* with null in the place of every dependency outside the bound types bnd.
BuiltWithNulls(heapAfter, ptr, T, deps, bnd) ==
    /\ ptr \in 1..Len(heapAfter)
    /\ heapAfter[ptr].type = T
    /\ Len(heapAfter[ptr].args) = Len(deps)
    /\ \A k \in 1..Len(deps) : deps[k] \notin bnd => heapAfter[ptr].args[k] = Null

BoundTypes == {T \in Types : Bound(T)}

\* C12: Bind registers the binding of T whether or not its dependencies are
\* bound, and whenever T is built (by Bind as singleton, by Get as factory)
\* while a dependency has no binding, the constructor gets null for it and
\* the new T is returned and tracked.
Inv_C12_UnboundDepIsNull ==
    Live =>
        /\ \A a \in BindCalls :
              (~sealed /\ ~Bound(a[1])) =>
                  LET r == BindOp(Cur, a[1], a[2], a[3], a[4])
                      n == Len(r.c.instances)
                  IN  /\ r.eff
                      /\ Len(r.c.bindings) = numBindings + 1
                      /\ r.c.bindings[numBindings + 1].type = a[1]
                      /\ r.c.bindings[numBindings + 1].deps = a[2]
                      /\ (r.ok /\ a[3] = "singleton") =>
                            /\ BuiltWithNulls(r.c.heap, r.ptr, a[1], a[2], BoundTypes \cup {a[1]})
                            /\ n > 0
                            /\ r.c.instances[n].ptr = r.ptr
                            /\ r.c.instances[n].type = a[1]
        /\ \A T \in Types :
              (decl[T].mode = "factory" /\ GetOp(Cur, T).ok) =>
                  LET r == GetOp(Cur, T)
                      n == Len(r.c.instances)
                  IN  /\ r.ret # Null
                      /\ BuiltWithNulls(r.c.heap, r.ret, T, decl[T].deps, BoundTypes)
                      /\ n > 0
                      /\ r.c.instances[n].ptr = r.ret
                      /\ r.c.instances[n].type = T

Wit_C12_UnboundDepIsNull ==
    /\ Live
    /\ last.op = "Get"
    /\ decl[last.type].mode = "factory"
    /\ last.ret \in 1..Len(heap)
    /\ \E k \in 1..Len(decl[last.type].deps) :
          /\ ~Bound(decl[last.type].deps[k])
          /\ heap[last.ret].args[k] = Null
    /\ instances[numInstances].ptr = last.ret

\* C13: the destructor first deletes every binding, last registered first,
\* and only then the tracked instances that are not provided, last tracked
\* first; no object is deleted before the last binding is.
Inv_C13_TeardownOrder ==
    pc = "destroyed" =>
        LET n == numBindings
            objs == {k \in 1..Len(destroyed) : destroyed[k].kind = "object"}
            kept == {i \in 1..numInstances : instances[i].mode # "provided"}
        IN  /\ Len(destroyed) = n + Cardinality(kept)
            /\ \A k \in 1..n :
                  /\ destroyed[k].kind = "binding"
                  /\ destroyed[k].type = bindings[n + 1 - k].type
            /\ \A k \in (n + 1)..Len(destroyed) : destroyed[k].kind = "object"
            /\ \A k \in objs : \A b \in 1..Len(destroyed) :
                  destroyed[b].kind = "binding" => b < k
            /\ \A k1, k2 \in objs : k1 < k2 =>
                  \E i1, i2 \in kept :
                      /\ i2 < i1
                      /\ instances[i1].ptr = destroyed[k1].ptr
                      /\ instances[i2].ptr = destroyed[k2].ptr

Wit_C13_TeardownOrder ==
    /\ pc = "destroyed"
    /\ numBindings = 2
    /\ Cardinality({k \in 1..Len(destroyed) : destroyed[k].kind = "object"}) >= 2
    /\ \E i \in 1..numInstances : instances[i].mode = "provided"

\* C14: every object the container constructed is tracked by exactly one
\* instance that is not provided; the destructor deletes each of them exactly
\* once and deletes no object the caller provided.
TimesDeleted(p) ==
    Cardinality({k \in 1..Len(destroyed) : destroyed[k].kind = "object" /\ destroyed[k].ptr = p})

Inv_C14_OwnedDeletedOnce ==
    /\ \A p \in 1..Len(heap) :
          /\ Cardinality({i \in 1..numInstances : instances[i].ptr = p}) = 1
          /\ \A i \in 1..numInstances :
                instances[i].ptr = p =>
                    instances[i].mode # "provided" /\ instances[i].type = heap[p].type
          /\ pc = "destroyed" => TimesDeleted(p) = 1
    /\ \A x \in ExtPtrs \cup {Null} : TimesDeleted(x) = 0
    /\ \A k \in 1..Len(destroyed) :
          destroyed[k].kind = "object" => destroyed[k].ptr \in 1..Len(heap)

Wit_C14_OwnedDeletedOnce ==
    /\ pc = "destroyed"
    /\ \E i, j \in 1..numInstances :
          /\ instances[i].mode = "factory"
          /\ instances[j].mode = "singleton"
          /\ heap[instances[j].ptr].args = <<instances[i].ptr>>
          /\ TimesDeleted(instances[i].ptr) = 1
          /\ TimesDeleted(instances[j].ptr) = 1

\* how many times the constructor of T has run in the objects of h
Constructions(h, T) == Cardinality({p \in 1..Len(h) : h[p].type = T})

\* C15: a Bind that registers T as singleton runs the constructor of T once
\* before it returns and caches the object; afterwards no Bind, Get or Seal
\* runs the constructor of T again.
Inv_C15_SingletonBuiltOnce ==
    /\ \A T \in Types : decl[T].mode = "singleton" => Constructions(heap, T) = 1
    /\ Live =>
          \A a \in BindCalls :
              (~sealed /\ ~Bound(a[1]) /\ a[3] = "singleton") =>
                  LET r == BindOp(Cur, a[1], a[2], a[3], a[4])
                  IN  r.ok =>
                        /\ Constructions(heap, a[1]) = 0
                        /\ Constructions(r.c.heap, a[1]) = 1
                        /\ r.ptr \in 1..Len(r.c.heap)
                        /\ r.c.heap[r.ptr].type = a[1]
                        /\ \E i \in 1..Len(r.c.instances) :
                              /\ r.c.instances[i] = [type |-> a[1], mode |-> "singleton", ptr |-> r.ptr]
                              /\ \A j \in 1..Len(r.c.instances) :
                                    r.c.instances[j].type = a[1] => j = i

Wit_C15_SingletonBuiltOnce ==
    /\ Live
    /\ last.op = "Get"
    /\ decl[last.type].mode = "singleton"
    /\ Constructions(heap, last.type) = 1
    /\ heap[last.ret].type = last.type
    /\ numInstances >= 3

\* C16: a Bind that registers T as factory only appends the binding: it
\* constructs nothing and tracks nothing, so no T exists until a Get<T>
\* builds the first one.
Inv_C16_FactoryBindLazy ==
    Live =>
        /\ \A a \in BindCalls :
              (~sealed /\ ~Bound(a[1]) /\ a[3] = "factory") =>
                  LET r == BindOp(Cur, a[1], a[2], a[3], a[4])
                      g == GetOp(r.c, a[1])
                  IN  /\ r.ok /\ r.eff
                      /\ r.c.heap = heap
                      /\ r.c.instances = instances
                      /\ r.c.sealed = sealed
                      /\ r.c.bindings = bindings \o <<[type |-> a[1], deps |-> a[2]]>>
                      /\ Constructions(r.c.heap, a[1]) = 0
                      /\ g.ok => /\ Constructions(g.c.heap, a[1]) = 1
                                 /\ g.c.heap[g.ret].type = a[1]
        /\ \A T \in Types :
              (decl[T].mode = "factory" /\ ~\E i \in 1..numInstances : instances[i].type = T)
                  => Constructions(heap, T) = 0

Wit_C16_FactoryBindLazy ==
    /\ Live
    /\ last.op = "Bind"
    /\ decl[last.type].mode = "factory"
    /\ decl[last.type].deps # <<>>
    /\ Constructions(heap, last.type) = 0
    /\ bindings[numBindings].type = last.type
    /\ numInstances > 0

\* C17: every tracked instance carries the policy its type was bound with;
\* in particular the instance a Get records after building.
Inv_C17_InstancePolicyIsDeclared ==
    /\ \A i \in 1..numInstances : instances[i].mode = decl[instances[i].type].mode
    /\ Live =>
          \A T \in Types :
              LET r == GetOp(Cur, T)
              IN  (r.ok /\ Len(r.c.instances) > numInstances) =>
                      /\ r.c.instances[Len(r.c.instances)].type = T
                      /\ r.c.instances[Len(r.c.instances)].ptr = r.ret
                      /\ r.c.instances[Len(r.c.instances)].mode = decl[T].mode

Wit_C17_InstancePolicyIsDeclared ==
    /\ Live
    /\ last.op = "Get"
    /\ numInstances > 0
    /\ instances[numInstances] = [type |-> last.type, mode |-> "factory", ptr |-> last.ret]
    /\ \E i \in 1..numInstances : instances[i].mode = "singleton"
    /\ \E p \in 1..Len(heap) : heap[p].args # <<>> /\ heap[p].args # <<Null>>

\* C18: a type has at most one tracked instance that is not factory; only
\* factory instances accumulate.
Inv_C18_OneCacheEntryPerType ==
    \A T \in Types :
        Cardinality({i \in InstancesOf(T) : instances[i].mode # "factory"}) <= 1

Wit_C18_OneCacheEntryPerType ==
    /\ \E T \in Types : Cardinality({i \in InstancesOf(T) : instances[i].mode = "factory"}) >= 2
    /\ \E T \in Types : Cardinality({i \in InstancesOf(T) : instances[i].mode # "factory"}) = 1
    /\ last.op = "Bind"
    /\ Live

\* the declared-dependency graph of the bindings bs: T -> D when the binding
\* of T names D; Reach follows it for n steps
DepEdge(bs, T, D) ==
    \E i \in 1..Len(bs) : bs[i].type = T /\ \E k \in 1..Len(bs[i].deps) : bs[i].deps[k] = D

RECURSIVE Reach(_, _, _)
Reach(bs, S, n) ==
    IF n = 0 THEN S
    ELSE Reach(bs, S \cup {D \in Types : \E T \in S : DepEdge(bs, T, D)}, n - 1)

Acyclic(bs) ==
    \A T \in Types : T \notin Reach(bs, {D \in Types : DepEdge(bs, T, D)}, Cardinality(Types))

\* C19: while the declared-dependency graph is acyclic, every Get returns
\* within as many nested Build calls as there are bindings, and every Bind
\* that keeps the graph acyclic returns as well.
Inv_C19_AcyclicTerminates ==
    Live =>
        /\ Acyclic(bindings) => \A T \in Types : GetRec(Cur, T, numBindings).ok
        /\ \A a \in BindCalls :
              (~sealed /\ ~Bound(a[1])
                  /\ Acyclic(bindings \o <<[type |-> a[1], deps |-> a[2]]>>))
              => LET r == BindOp(Cur, a[1], a[2], a[3], a[4])
                 IN  r.ok /\ GetRec(r.c, a[1], numBindings + 1).ok

Wit_C19_AcyclicTerminates ==
    /\ Live
    /\ Acyclic(bindings)
    /\ numBindings = 2
    /\ last.op = "Get"
    /\ decl[last.type].mode = "factory"
    /\ \E D \in Types :
          /\ decl[last.type].deps = <<D>>
          /\ decl[D].mode = "factory"
          /\ last.ret \in 1..Len(heap)
          /\ heap[last.ret].args[1] \in 1..Len(heap)
          /\ heap[heap[last.ret].args[1]].type = D

\* C20 as stated: whenever AddBind or AddInstance grows an array, ExpandArray
\* reads the old array only below its length, and the new array holds the old
\* elements in order plus one more slot.
GrowthInBounds(before, after) ==
    \A n \in Len(before)..(Len(after) - 1) :
        LET old == SubSeq(after, 1, n)
            new == ExpandArray(old, n + 1)
        IN  /\ \A i \in ExpandReads(old, n + 1) : i < n
            /\ Len(new) = n + 1
            /\ \A k \in 1..n : new[k] = old[k]

Cex_C20_GrowthInBounds ==
    [][GrowthInBounds(bindings, bindings') /\ GrowthInBounds(instances, instances')]_vars
====
